---- MODULE Spec2Model ----
(***************************************************************************)
(* Model of dbt/adapters/fal_experimental/adapter.py: the dispatcher       *)
(* run_in_environment_with_adapter, the Koldstart translation              *)
(* run_in_koldstart (flattening of stacked environments), the zip          *)
(* packaging of the local scripts directory and its extraction by          *)
(* _isolated_runner on the executing side.                                 *)
(***************************************************************************)
EXTENDS Integers, Sequences, FiniteSets, TLC

VARIABLES
    handle,        \* the environment object: type, target_env_type, target_environments
    declared,      \* target_environments as the handle was constructed with
    localFs,       \* caller's filesystem: path -> "dir" or file contents
    remoteFs,      \* filesystem of the remote executor
    calls,         \* number of run_in_environment_with_adapter calls made
    creds,         \* config.credentials of the last call
    stackBefore,   \* handle.target_environments when the last call started
    remoteBefore,  \* remoteFs when the last call started
    localBefore,   \* localFs when the last call started
    trace,         \* external operations performed by the last call, in order
    outcome,       \* "ok" or the exception the last call propagated
    flat,          \* arguments given to koldstart's isolated(...) by the last call
    archive,       \* local_packages handed to _isolated_runner by the last call
    ran            \* whether run_with_adapter (the user code) was entered

vars == <<handle, declared, localFs, remoteFs, calls, creds, stackBefore,
          remoteBefore, localBefore, trace, outcome, flat, archive, ran>>

----------------------------------------------------------------------------
(* Bounds *)

MaxCalls == 2
MaxLayers == 2
MaxEntries == 3

----------------------------------------------------------------------------
(* Paths and filesystems *)

ScriptsPath == <<"proj", "fal_scripts">>

EmptyFs == [p \in {} |-> "dir"]

exists(fs, p) == p \in DOMAIN fs

parent(p) == SubSeq(p, 1, Len(p) - 1)

Ancestors(p) == {SubSeq(p, 1, n) : n \in 1 .. (Len(p) - 1)}

\* Path.mkdir(parents=True, exist_ok=True)
mkdir_parents(fs, p) ==
    [q \in DOMAIN fs \cup Ancestors(p) \cup {p} |->
        IF q \in DOMAIN fs THEN fs[q] ELSE "dir"]

\* fal_scripts_path.glob("*"): the entries directly below root only
glob_top_level(fs, root) ==
    {p \in DOMAIN fs : Len(p) = Len(root) + 1 /\ SubSeq(p, 1, Len(root)) = root}

\* fal_scripts_path.rglob("*"): every entry strictly below root, at any depth
rglob(fs, root) ==
    {p \in DOMAIN fs : Len(p) > Len(root) /\ SubSeq(p, 1, Len(root)) = root}

\* entry.relative_to(fal_scripts_path)
relative_to(p, root) == SubSeq(p, Len(root) + 1, Len(p))

\* zip_file.write(entry, arcname): a directory entry or a file with its bytes
zip_write(fs, entry, arcname) ==
    [name |-> arcname,
     is_dir |-> fs[entry] = "dir",
     data |-> IF fs[entry] = "dir" THEN "" ELSE fs[entry]]

NoArchive == [present |-> FALSE, entries |-> {}]

\* lines 103-113: the archive of the scripts directory, or None
compressed_local_packages(fs) ==
    IF exists(fs, ScriptsPath)
    THEN [present |-> TRUE,
          entries |-> {zip_write(fs, e, relative_to(e, ScriptsPath)) :
                          e \in rglob(fs, ScriptsPath)}]
    ELSE NoArchive

\* ZipFile.extractall(dest): each member is written below dest, missing
\* upper directories are created, existing files are overwritten
extractall(fs, entries, dest) ==
    LET target(m) == dest \o m.name
        targets == {target(m) : m \in entries}
        updirs == UNION {Ancestors(t) : t \in targets}
        member(p) == CHOOSE m \in entries : target(m) = p
    IN [p \in DOMAIN fs \cup updirs \cup targets |->
           IF p \in targets
           THEN (IF member(p).is_dir THEN "dir" ELSE member(p).data)
           ELSE IF p \in DOMAIN fs THEN fs[p] ELSE "dir"]

\* The tree below root, by root-relative path
RelTree(fs, root) ==
    LET below == {p \in DOMAIN fs :
                     Len(p) > Len(root) /\ \A i \in 1 .. Len(root) : p[i] = root[i]}
    IN [r \in {SubSeq(p, Len(root) + 1, Len(p)) : p \in below} |-> fs[root \o r]]

----------------------------------------------------------------------------
(* _isolated_runner, lines 47-66 *)

\* a runner without the existence check: extracts over whatever is there
_isolated_runner_overwrite(fs, local_packages, fault) ==
    [fs |-> IF local_packages.present
            THEN extractall(mkdir_parents(fs, parent(ScriptsPath)),
                            local_packages.entries, ScriptsPath)
            ELSE fs,
     outcome |-> IF fault = "run" THEN "UserCodeError" ELSE "ok",
     ran |-> TRUE]

_isolated_runner(fs, local_packages, fault) ==
    IF local_packages.present /\ exists(fs, ScriptsPath)
    THEN [fs |-> fs, outcome |-> "AssertionError", ran |-> FALSE]
    ELSE [fs |-> IF local_packages.present
                 THEN extractall(mkdir_parents(fs, parent(ScriptsPath)),
                                 local_packages.entries, ScriptsPath)
                 ELSE fs,
          outcome |-> IF fault = "run" THEN "UserCodeError" ELSE "ok",
          ran |-> TRUE]

----------------------------------------------------------------------------
(* Environment layers and their flattening, run_in_koldstart lines 153-214 *)

\* env.get("configuration", {}).get(key) is truthy: the key is present and
\* its list is not empty
Truthy(env, key) ==
    key \in DOMAIN env.configuration /\ env.configuration[key] # <<>>

\* a flattening that skips requirements already collected
RECURSIVE VirtualenvRequirementsDedup(_, _)
VirtualenvRequirementsDedup(envs, requirements) ==
    IF envs = <<>> THEN requirements
    ELSE LET env == Head(envs)
             have == {requirements[i] : i \in 1 .. Len(requirements)}
             new == IF Truthy(env, "requirements")
                    THEN SelectSeq(env.configuration["requirements"],
                                   LAMBDA r : r \notin have)
                    ELSE <<>>
         IN VirtualenvRequirementsDedup(Tail(envs), requirements \o new)

\* lines 183-186: requirements += env["configuration"]["requirements"]
RECURSIVE VirtualenvRequirements(_, _)
VirtualenvRequirements(envs, requirements) ==
    IF envs = <<>> THEN requirements
    ELSE LET env == Head(envs)
         IN VirtualenvRequirements(Tail(envs),
                IF Truthy(env, "requirements")
                THEN requirements \o env.configuration["requirements"]
                ELSE requirements)

PkgEntry(name) == [pkg |-> name]

PipEntry(reqs) == [pip |-> reqs]

\* a flattening that merges the pip requirements of consecutive layers into
\* the pip entry that is already last
RECURSIVE CondaDependenciesMerged(_, _)
CondaDependenciesMerged(envs, dependencies) ==
    IF envs = <<>> THEN dependencies
    ELSE LET env == Head(envs)
             d1 == IF Truthy(env, "packages")
                   THEN dependencies \o
                        [i \in 1 .. Len(env.configuration["packages"]) |->
                            PkgEntry(env.configuration["packages"][i])]
                   ELSE dependencies
             n == Len(d1)
             d2 == IF ~Truthy(env, "requirements") THEN d1
                   ELSE IF n > 0 /\ DOMAIN d1[n] = {"pip"}
                   THEN [d1 EXCEPT ![n] =
                            PipEntry(d1[n].pip \o env.configuration["requirements"])]
                   ELSE Append(d1, PipEntry(env.configuration["requirements"]))
         IN CondaDependenciesMerged(Tail(envs), d2)

\* lines 198-202: dependencies += packages; dependencies.append({"pip": ...})
RECURSIVE CondaDependencies(_, _)
CondaDependencies(envs, dependencies) ==
    IF envs = <<>> THEN dependencies
    ELSE LET env == Head(envs)
             d1 == IF Truthy(env, "packages")
                   THEN dependencies \o
                        [i \in 1 .. Len(env.configuration["packages"]) |->
                            PkgEntry(env.configuration["packages"][i])]
                   ELSE dependencies
             d2 == IF Truthy(env, "requirements")
                   THEN Append(d1, PipEntry(env.configuration["requirements"]))
                   ELSE d1
         IN CondaDependencies(Tail(envs), d2)

\* lines 193-197 and 203-207
env_dict(envs) ==
    [name |-> "dbt_fal_env",
     channels |-> <<"conda-forge", "defaults">>,
     dependencies |-> CondaDependencies(envs, <<>>)]

NoFlat == [kind |-> "none"]

\* a translation that rejects by the layers' kind values instead of by the
\* handle's target type (an unknown target type is then taken as virtualenv)
isolated_by_layer_kind(environment) ==
    IF \E i \in 1 .. Len(environment.target_environments) :
          environment.target_environments[i].kind \notin {"virtualenv", "conda"}
    THEN NoFlat
    ELSE IF environment.target_env_type = "conda"
    THEN [kind |-> "conda", env_dict |-> env_dict(environment.target_environments)]
    ELSE [kind |-> "virtualenv",
          requirements |-> VirtualenvRequirements(environment.target_environments, <<>>)]

\* lines 182-211: the keyword arguments of isolated(...), or NoFlat when the
\* target type is not supported and the function raises instead
isolated(environment) ==
    IF environment.target_env_type = "virtualenv"
    THEN [kind |-> "virtualenv",
          requirements |-> VirtualenvRequirements(environment.target_environments, <<>>)]
    ELSE IF environment.target_env_type = "conda"
    THEN [kind |-> "conda", env_dict |-> env_dict(environment.target_environments)]
    ELSE NoFlat

\* run_in_koldstart as a whole: what the call did and how it ended
run_in_koldstart(environment, rfs, local_packages, fault) ==
    LET f == isolated(environment)
        r == _isolated_runner(rfs, local_packages, fault)
    IN IF f = NoFlat
       THEN [trace |-> <<>>, outcome |-> "Exception", flat |-> NoFlat,
             remoteFs |-> rfs, ran |-> FALSE]
       ELSE [trace |-> <<"isolated", "call">>, outcome |-> r.outcome, flat |-> f,
             remoteFs |-> r.fs, ran |-> r.ran]

----------------------------------------------------------------------------
(* run_in_environment_with_adapter, lines 69-151 *)

RemoteTypes == {"IsolateServer", "KoldstartDummyServer"}

HandleTypes == RemoteTypes \cup {"VirtualPythonEnvironment"}

Credentials ==
    {[type |-> "BigQueryCredentials", method |-> "service-account"],
     [type |-> "BigQueryCredentials", method |-> "service-account-json"],
     [type |-> "PostgresCredentials", method |-> "none"]}

\* The submitted user code either returns or raises; its exception propagates
\* through connection.run / the isolated function
Faults == {"none", "run"}

adapter_type(c) ==
    IF c.type = "BigQueryCredentials" THEN "bigquery" ELSE "postgres"

\* utils/environments.py: the adapter's own requirements, never empty
get_default_pip_dependencies(is_remote, adapter) ==
    IF is_remote
    THEN <<"dbt-fal", IF adapter = "bigquery" THEN "dbt-bigquery" ELSE "dbt-postgres">>
    ELSE <<"dbt-fal">>

\* lines 92-95
extra_config(adapter) ==
    [kind |-> "virtualenv",
     configuration |-> [requirements |-> get_default_pip_dependencies(TRUE, adapter)]]

\* the check written against the supported method
UnsupportedCredentialsJson(c) ==
    c.type = "BigQueryCredentials" /\ c.method = "service-account-json"

\* line 83
UnsupportedCredentials(c) ==
    c.type = "BigQueryCredentials" /\ c.method = "service-account"

\* the default layer put first instead of last
prepend_layer(envs, layer) == <<layer>> \o envs

\* line 97: environment.target_environments.append(extra_config)
append_layer(envs, layer) == Append(envs, layer)

\* a connection closed only after a submission that returned
managed_connection_leaky(rfs, local_packages, fault) ==
    LET r == _isolated_runner(rfs, local_packages, fault)
    IN [trace |-> IF r.outcome = "ok" THEN <<"open", "run", "close">>
                  ELSE <<"open", "run">>,
        outcome |-> r.outcome, remoteFs |-> r.fs, ran |-> r.ran]

\* lines 125-135: with environment.open_connection(key) as connection:
\* connection.run(execute_model); the context manager closes on every exit
managed_connection(rfs, local_packages, fault) ==
    LET r == _isolated_runner(rfs, local_packages, fault)
    IN [trace |-> <<"open", "run", "close">>, outcome |-> r.outcome,
        remoteFs |-> r.fs, ran |-> r.ran]

\* lines 82-135: the remote-service branch
remote_branch(env, c, lfs, rfs, fault) ==
    IF UnsupportedCredentials(c)
    THEN [envs |-> env.target_environments, trace |-> <<>>,
          outcome |-> "RuntimeError", flat |-> NoFlat, archive |-> NoArchive,
          remoteFs |-> rfs, ran |-> FALSE]
    ELSE
      LET envs1 == append_layer(env.target_environments, extra_config(adapter_type(c)))
          env1 == [env EXCEPT !.target_environments = envs1]
          pk == compressed_local_packages(lfs)
          t1 == <<"append", "create">> \o (IF pk.present THEN <<"pack">> ELSE <<>>)
          k == run_in_koldstart(env1, rfs, pk, fault)
          m == managed_connection(rfs, pk, fault)
      IN IF env.type = "KoldstartDummyServer"
         THEN [envs |-> envs1, trace |-> t1 \o k.trace, outcome |-> k.outcome,
               flat |-> k.flat, archive |-> pk, remoteFs |-> k.remoteFs,
               ran |-> k.ran]
         ELSE [envs |-> envs1, trace |-> t1 \o m.trace, outcome |-> m.outcome,
               flat |-> NoFlat, archive |-> pk, remoteFs |-> m.remoteFs,
               ran |-> m.ran]

\* lines 137-151: the local PythonIPC branch; _isolated_runner gets no archive
\* and runs on the caller's filesystem
local_branch(env, lfs, rfs, fault) ==
    LET r == _isolated_runner(lfs, NoArchive, fault)
    IN [envs |-> env.target_environments,
        trace |-> <<"create", "stage", "ipc_open", "ipc_run", "ipc_close">>,
        outcome |-> r.outcome, flat |-> NoFlat, archive |-> NoArchive,
        remoteFs |-> rfs, ran |-> r.ran]

\* a classification that takes only the Koldstart handle as remote
dispatch_koldstart_only(env, c, lfs, rfs, fault) ==
    IF env.type = "KoldstartDummyServer"
    THEN remote_branch(env, c, lfs, rfs, fault)
    ELSE local_branch(env, lfs, rfs, fault)

\* line 82: the single classification step
dispatch(env, c, lfs, rfs, fault) ==
    IF env.type \in RemoteTypes
    THEN remote_branch(env, c, lfs, rfs, fault)
    ELSE local_branch(env, lfs, rfs, fault)

run_in_environment_with_adapter(c, fault) ==
    LET res == dispatch(handle, c, localFs, remoteFs, fault)
    IN /\ calls < MaxCalls
       /\ calls' = calls + 1
       /\ creds' = c
       /\ stackBefore' = handle.target_environments
       /\ remoteBefore' = remoteFs
       /\ localBefore' = localFs
       /\ handle' = [handle EXCEPT !.target_environments = res.envs]
       /\ remoteFs' = res.remoteFs
       /\ trace' = res.trace
       /\ outcome' = res.outcome
       /\ flat' = res.flat
       /\ archive' = res.archive
       /\ ran' = res.ran
       /\ UNCHANGED <<declared, localFs>>

Next == \E c \in Credentials, fault \in Faults : run_in_environment_with_adapter(c, fault)

----------------------------------------------------------------------------
(* Inputs *)

Layer(kind, cfg) == [kind |-> kind, configuration |-> cfg]

Kinds == {"virtualenv", "conda", "docker"}

TargetTypes == {"virtualenv", "conda", "docker"}

\* configuration dicts: keys absent, present and empty, present and filled
Configurations ==
    {[x \in {} |-> <<>>],
     [requirements |-> <<>>],
     [requirements |-> <<"pandas">>],
     [requirements |-> <<"numpy", "pandas">>],
     [packages |-> <<"python=3.9">>, requirements |-> <<"scikit-learn">>],
     [packages |-> <<"numpy", "pip">>]}

\* packages are a key of conda layers only
Layers ==
    {l \in {Layer(k, cfg) : k \in Kinds, cfg \in Configurations} :
        "packages" \in DOMAIN l.configuration => l.kind = "conda"}

Stacks(n) == UNION {[1 .. m -> Layers] : m \in 0 .. n}

\* the stacks of the documented scenarios, and a stack with a foreign kind
ScenarioStacks ==
    {<<>>,
     <<Layer("virtualenv", [requirements |-> <<"pandas">>]),
       Layer("virtualenv", [requirements |-> <<"numpy", "pandas">>])>>,
     <<Layer("conda", [packages |-> <<"python=3.9">>, requirements |-> <<"scikit-learn">>]),
       Layer("conda", [packages |-> <<"numpy">>])>>,
     <<Layer("docker", [requirements |-> <<"pandas">>])>>}

Names == {"a", "b"}

RelPaths == UNION {[1 .. n -> Names] : n \in 1 .. 3}

Nodes == {"dir", "x", "y"}

\* a directory tree: every entry's parent is a directory of the tree
IsTree(t) ==
    \A p \in DOMAIN t : Len(p) > 1 => (parent(p) \in DOMAIN t /\ t[parent(p)] = "dir")

Trees ==
    {t \in UNION {[E -> Nodes] : E \in {E \in SUBSET RelPaths : Cardinality(E) <= MaxEntries}} :
        IsTree(t)}

\* the caller's filesystem with tree t at the scripts path
Mount(t) ==
    [p \in Ancestors(ScriptsPath) \cup {ScriptsPath} \cup {ScriptsPath \o r : r \in DOMAIN t} |->
        IF Len(p) > Len(ScriptsPath) THEN t[relative_to(p, ScriptsPath)] ELSE "dir"]

NoScripts == [p \in Ancestors(ScriptsPath) |-> "dir"]

NestedTree ==
    (<<"a">> :> "dir") @@ (<<"a", "b">> :> "x") @@ (<<"b">> :> "dir") @@ (<<"a", "a">> :> "dir")
        @@ (<<"a", "a", "b">> :> "y")

\* a remote executor on which the scripts path is already populated
RemoteOccupied == Mount(<<"b">> :> "y")

InitCommon ==
    /\ declared = handle.target_environments
    /\ calls = 0
    /\ creds = [type |-> "PostgresCredentials", method |-> "none"]
    /\ stackBefore = handle.target_environments
    /\ remoteBefore = remoteFs
    /\ localBefore = localFs
    /\ trace = <<>>
    /\ outcome = "none"
    /\ flat = NoFlat
    /\ archive = NoArchive
    /\ ran = FALSE

Init ==
    /\ handle \in [type : HandleTypes, target_env_type : TargetTypes,
                   target_environments : ScenarioStacks]
    /\ localFs \in {NoScripts, Mount(EmptyFs), Mount(NestedTree)}
    /\ remoteFs \in {EmptyFs, RemoteOccupied}
    /\ InitCommon

Spec == Init /\ [][Next]_vars

\* flattening over every stack of up to MaxLayers layers, one call each
InitFlatten ==
    /\ handle \in [type : {"KoldstartDummyServer"}, target_env_type : TargetTypes,
                   target_environments : Stacks(MaxLayers)]
    /\ localFs = NoScripts
    /\ remoteFs = EmptyFs
    /\ InitCommon

NextOnce == calls = 0 /\ Next

SpecFlatten == InitFlatten /\ [][NextOnce]_vars

\* packaging and unpacking over every tree of up to MaxEntries entries
InitArchive ==
    /\ handle \in [type : RemoteTypes, target_env_type : {"virtualenv"},
                   target_environments : {<<>>}]
    /\ localFs \in {Mount(t) : t \in Trees} \cup {NoScripts}
    /\ remoteFs \in {EmptyFs, NoScripts, RemoteOccupied}
    /\ InitCommon

SpecArchive == InitArchive /\ [][NextOnce]_vars

----------------------------------------------------------------------------
(* Properties *)

Events(t) == {t[i] : i \in 1 .. Len(t)}

Count(t, e) == Cardinality({i \in 1 .. Len(t) : t[i] = e})

\* the number of times the execution request was submitted
Submissions(t) == Count(t, "run") + Count(t, "call") + Count(t, "ipc_run")

RECURSIVE ConcatAll(_)
ConcatAll(ss) ==
    IF ss = <<>> THEN <<>>
    ELSE ConcatAll(SubSeq(ss, 1, Len(ss) - 1)) \o ss[Len(ss)]

Get(env, key) ==
    IF key \in DOMAIN env.configuration THEN env.configuration[key] ELSE <<>>

\* the stack a call flattened: the handle's layers once the call has appended
FlattenedStack == handle.target_environments

\* C1: with a virtualenv target, the requirements given to the remote callable
\* are the concatenation, in layer order, of every layer's requirements list;
\* duplicates are kept and layers without requirements contribute nothing.
C1_VirtualenvConcatenation ==
    (calls > 0 /\ flat.kind = "virtualenv") =>
        flat.requirements =
            ConcatAll([i \in 1 .. Len(FlattenedStack) |->
                          Get(FlattenedStack[i], "requirements")])

C1_Witness ==
    /\ calls > 0
    /\ flat.kind = "virtualenv"
    /\ Len(stackBefore) = 2
    /\ Get(stackBefore[1], "requirements") = <<"pandas">>
    /\ Get(stackBefore[2], "requirements") = <<"numpy", "pandas">>
    /\ SubSeq(flat.requirements, 1, 3) = <<"pandas", "numpy", "pandas">>

\* what one layer contributes to the conda dependency list
LayerDependencies(env) ==
    [i \in 1 .. Len(Get(env, "packages")) |-> PkgEntry(Get(env, "packages")[i])]
        \o (IF Get(env, "requirements") # <<>>
            THEN <<PipEntry(Get(env, "requirements"))>> ELSE <<>>)

\* C2: with a conda target, env_dict is named dbt_fal_env, has the channels
\* conda-forge and defaults, and its dependencies are, layer by layer, the
\* layer's packages followed by one pip entry iff the layer has (a non-empty
\* list of) pip requirements; pip entries are counted per layer, never merged.
C2_CondaEnvDict ==
    (calls > 0 /\ flat.kind = "conda") =>
        /\ flat.env_dict.name = "dbt_fal_env"
        /\ flat.env_dict.channels = <<"conda-forge", "defaults">>
        /\ flat.env_dict.dependencies =
              ConcatAll([i \in 1 .. Len(FlattenedStack) |->
                            LayerDependencies(FlattenedStack[i])])
        /\ Cardinality({j \in 1 .. Len(flat.env_dict.dependencies) :
                           DOMAIN flat.env_dict.dependencies[j] = {"pip"}})
             = Cardinality({i \in 1 .. Len(FlattenedStack) :
                               Get(FlattenedStack[i], "requirements") # <<>>})

C2_Witness ==
    /\ calls > 0
    /\ flat.kind = "conda"
    /\ Len(stackBefore) = 2
    /\ Get(stackBefore[1], "requirements") # <<>>
    /\ Get(stackBefore[2], "requirements") # <<>>
    /\ Get(stackBefore[2], "packages") = <<>>
    /\ Cardinality({j \in 1 .. Len(flat.env_dict.dependencies) :
                       DOMAIN flat.env_dict.dependencies[j] = {"pip"}}) = 3

\* the last call was made with BigQuery credentials of method service-account
ServiceAccount ==
    creds = [type |-> "BigQueryCredentials", method |-> "service-account"]

\* the last call reached run_in_koldstart
KoldstartEntered ==
    calls > 0 /\ handle.type = "KoldstartDummyServer" /\ ~ServiceAccount

\* the last call reached the managed-connection submission
IsolateEntered ==
    calls > 0 /\ handle.type = "IsolateServer" /\ ~ServiceAccount

SupportedTarget == handle.target_env_type \in {"virtualenv", "conda"}

ForeignLayer ==
    \E i \in 1 .. Len(FlattenedStack) :
        FlattenedStack[i].kind \notin {"virtualenv", "conda"}

NoRemoteCallable ==
    flat = NoFlat /\ "isolated" \notin Events(trace) /\ "call" \notin Events(trace) /\ ~ran

\* C3 as stated: a stack holding a layer of a kind other than virtualenv or
\* conda always fails with the unsupported-kind error, whatever the target
\* type, and no remote callable is constructed or invoked.
C3_ForeignLayerRejected ==
    (KoldstartEntered /\ ForeignLayer) => (outcome = "Exception" /\ NoRemoteCallable)

\* C3 amended: run_in_koldstart fails with the unsupported-type error exactly
\* when the handle's target_env_type is neither virtualenv nor conda, whatever
\* kind values the layers carry; then no remote callable is constructed or
\* invoked.
C3_UnsupportedTargetRejected ==
    KoldstartEntered =>
        /\ (outcome = "Exception") <=> ~SupportedTarget
        /\ ~SupportedTarget => NoRemoteCallable
        /\ SupportedTarget => flat.kind = handle.target_env_type

C3_Witness ==
    /\ KoldstartEntered
    /\ ~SupportedTarget
    /\ ~ForeignLayer
    /\ outcome = "Exception"

\* the last call handed local_packages to _isolated_runner on the executor
RunnerGotArchive ==
    /\ calls > 0
    /\ archive.present
    /\ ("run" \in Events(trace) \/ "call" \in Events(trace))

\* C4: when _isolated_runner receives an archive and the scripts path already
\* exists, it fails without creating or extracting anything: the executor's
\* filesystem is unchanged and the user code is not run.
C4_ExistingDestinationFails ==
    (RunnerGotArchive /\ exists(remoteBefore, ScriptsPath)) =>
        /\ outcome = "AssertionError"
        /\ remoteFs = remoteBefore
        /\ ~ran

C4_Witness ==
    /\ RunnerGotArchive
    /\ exists(remoteBefore, ScriptsPath)
    /\ archive.entries # {}
    /\ outcome = "AssertionError"

\* C5: an archive of the local scripts tree, unpacked into a destination that
\* did not exist, yields the same root-relative paths with the same contents.
C5_RoundTrip ==
    (RunnerGotArchive /\ ~exists(remoteBefore, ScriptsPath)) =>
        /\ RelTree(remoteFs, ScriptsPath) = RelTree(localBefore, ScriptsPath)
        /\ ran

C5_Witness ==
    /\ RunnerGotArchive
    /\ ~exists(remoteBefore, ScriptsPath)
    /\ \E p \in DOMAIN remoteFs :
          /\ Len(p) = Len(ScriptsPath) + 2
          /\ remoteFs[p] = "x"
    /\ \E p \in DOMAIN remoteFs :
          /\ Len(p) > Len(ScriptsPath)
          /\ remoteFs[p] = "dir"
          /\ \A q \in DOMAIN remoteFs : parent(q) # p

\* C6: on the remote branch BigQuery service-account credentials fail at once
\* with the configuration error: nothing is appended, created, packaged,
\* opened or submitted; on the local branch they raise no such error.
C6_ServiceAccountRejected ==
    (calls > 0 /\ ServiceAccount) =>
        IF handle.type \in RemoteTypes
        THEN /\ outcome = "RuntimeError"
             /\ trace = <<>>
             /\ handle.target_environments = stackBefore
             /\ archive = NoArchive
             /\ remoteFs = remoteBefore
             /\ ~ran
        ELSE outcome # "RuntimeError" /\ Submissions(trace) = 1

C6_Witness ==
    /\ calls > 0
    /\ ServiceAccount
    /\ handle.type = "IsolateServer"
    /\ exists(localFs, ScriptsPath)
    /\ outcome = "RuntimeError"

C6_WitnessLocal ==
    /\ calls > 0
    /\ ServiceAccount
    /\ handle.type \notin RemoteTypes
    /\ outcome = "ok"

\* C7 as stated: whatever calls came before, the stack a call provisions and
\* flattens is the handle's declared layers plus exactly one default layer.
C7_FreshStackPerCall ==
    (calls > 0 /\ "append" \in Events(trace)) =>
        FlattenedStack = Append(declared, extra_config(adapter_type(creds)))

IsSuffix(t, u) == Len(t) <= Len(u) /\ SubSeq(u, Len(u) - Len(t) + 1, Len(u)) = t

\* C8: on the IsolateServer branch the connection is opened after create()
\* and packaging, used for one submission and closed on every exit path,
\* whether the submission returned or raised.
C8_ConnectionReleased ==
    IsolateEntered =>
        /\ trace \in {<<"append", "create", "open", "run", "close">>,
                      <<"append", "create", "pack", "open", "run", "close">>}
        /\ Count(trace, "open") = Count(trace, "close")

C8_Witness ==
    /\ IsolateEntered
    /\ outcome = "AssertionError"
    /\ IsSuffix(<<"pack", "open", "run", "close">>, trace)

C8_WitnessRaised ==
    /\ IsolateEntered
    /\ outcome = "UserCodeError"
    /\ IsSuffix(<<"open", "run", "close">>, trace)

\* a request the code rejects before anything is submitted: the credential
\* check of the remote branch, or an unsupported target type on Koldstart
Rejected ==
    \/ (handle.type \in RemoteTypes /\ ServiceAccount)
    \/ (KoldstartEntered /\ ~SupportedTarget)

\* the strategy of each handle type, kept apart from the other two
StrategyOfHandle ==
    /\ handle.type = "KoldstartDummyServer" =>
          Events(trace) \cap {"open", "run", "close", "ipc_open", "ipc_run"} = {}
    /\ handle.type = "IsolateServer" =>
          /\ Events(trace) \cap {"isolated", "call", "ipc_open", "ipc_run"} = {}
          /\ flat = NoFlat
    /\ handle.type \notin RemoteTypes =>
          /\ trace = <<"create", "stage", "ipc_open", "ipc_run", "ipc_close">>
          /\ handle.target_environments = stackBefore
          /\ archive = NoArchive
          /\ flat = NoFlat
    /\ (handle.type \in RemoteTypes /\ Submissions(trace) = 1) =>
          (archive.present <=> exists(localBefore, ScriptsPath))

\* C9 as stated: every request is classified into one of the three strategies
\* and submits the execution request exactly once.
C9_EveryRequestSubmitsOnce ==
    calls > 0 => (StrategyOfHandle /\ Submissions(trace) = 1)

\* C9 amended: every request is classified into one of the three strategies;
\* a request submits the execution request exactly once unless it is rejected
\* first (credential check, unsupported target type), and then it submits
\* nothing; never more than once.
C9_SubmitsOnceUnlessRejected ==
    calls > 0 =>
        /\ StrategyOfHandle
        /\ Submissions(trace) = (IF Rejected THEN 0 ELSE 1)

C9_Witness ==
    /\ KoldstartEntered
    /\ SupportedTarget
    /\ archive.present
    /\ Submissions(trace) = 1
    /\ outcome = "ok"

C9_WitnessRejected ==
    /\ KoldstartEntered
    /\ ~SupportedTarget
    /\ Submissions(trace) = 0

Elems(q) == {q[i] : i \in 1 .. Len(q)}

\* the default remote requirements of the last call
Deps == get_default_pip_dependencies(TRUE, adapter_type(creds))

DefaultsLast ==
    /\ flat.kind = "conda" =>
          /\ Len(flat.env_dict.dependencies) > 0
          /\ flat.env_dict.dependencies[Len(flat.env_dict.dependencies)] = PipEntry(Deps)
    /\ flat.kind = "virtualenv" => IsSuffix(Deps, flat.requirements)

RequirementsKept ==
    \A i \in 1 .. Len(FlattenedStack) :
        \A r \in Elems(Get(FlattenedStack[i], "requirements")) :
            IF flat.kind = "conda"
            THEN \E j \in 1 .. Len(flat.env_dict.dependencies) :
                    /\ DOMAIN flat.env_dict.dependencies[j] = {"pip"}
                    /\ r \in Elems(flat.env_dict.dependencies[j].pip)
            ELSE r \in Elems(flat.requirements)

PackagesKept ==
    \A i \in 1 .. Len(FlattenedStack) :
        \A p \in Elems(Get(FlattenedStack[i], "packages")) :
            /\ flat.kind = "conda"
            /\ PkgEntry(p) \in Elems(flat.env_dict.dependencies)

\* C10 as stated: the default dependencies arrive last (conda: the final pip
\* entry; virtualenv: the suffix of the requirements), and every requirement
\* and every package of the flattened stack appears in the flattened result.
C10_NothingDropped ==
    (KoldstartEntered /\ SupportedTarget) =>
        (DefaultsLast /\ RequirementsKept /\ PackagesKept)

\* C10 amended: the default dependencies arrive last as stated and every
\* requirement of the flattened stack appears in the result; every package
\* appears when the target is conda, while a virtualenv target carries
\* requirements only and leaves the layers' packages out.
C10_RequirementsKeptPackagesOnConda ==
    (KoldstartEntered /\ SupportedTarget) =>
        /\ DefaultsLast
        /\ RequirementsKept
        /\ flat.kind = "conda" => PackagesKept
        /\ flat.kind = "virtualenv" =>
              Elems(flat.requirements) =
                  UNION {Elems(Get(FlattenedStack[i], "requirements")) :
                            i \in 1 .. Len(FlattenedStack)}

C10_Witness ==
    /\ KoldstartEntered
    /\ flat.kind = "conda"
    /\ Len(stackBefore) = 2
    /\ Get(stackBefore[1], "packages") # <<>>
    /\ Get(stackBefore[2], "requirements") # <<>>
    /\ flat.env_dict.dependencies[Len(flat.env_dict.dependencies)] = PipEntry(Deps)

C10_WitnessVirtualenvPackages ==
    /\ KoldstartEntered
    /\ flat.kind = "virtualenv"
    /\ \E i \in 1 .. Len(stackBefore) : Get(stackBefore[i], "packages") # <<>>

====
